---- MODULE Spec2Model ----
(***************************************************************************)
(* Crop suitability simulator (server.js): the POST /api/simulate handler, *)
(* its collaborators fetchClimate, fetchSoil and getCropDataFromGemini,    *)
(* and the scoring / growth-timeline engine inside the handler.            *)
(*                                                                         *)
(* Numbers.  JavaScript doubles are modelled in fixed point:               *)
(*   - observations and thresholds are integers in their natural unit;     *)
(*   - a fit is an integer in units of 1/FitOne;                           *)
(*   - envScore and stress are integers in units of 1/EnvOne;              *)
(*   - the running biomass is an integer in units of 1/BioOne;             *)
(*   - a frame's biomass (toFixed(3)) is an integer number of thousandths. *)
(* NaN, Infinity, null and undefined are distinct sentinel numbers; `none`  *)
(* is undefined/null in a position that otherwise holds an object.         *)
(***************************************************************************)
EXTENDS Integers, Sequences, FiniteSets, TLC

VARIABLES
    cropDataCache,  \* const cropDataCache = new Map(): crop name -> requirements
    pc,             \* position of the request handler
    nreq,           \* number of requests received so far
    body,           \* req.body: [lat, lon, crop]
    parsed,         \* getCropDataFromGemini: the reply parsed in this request
    reqs,           \* const reqs = await getCropDataFromGemini(crop)
    climSt, climR,  \* state and result of fetchClimate(lat, lon)
    soilSt, soilR,  \* state and result of fetchSoil(lat, lon)
    attempt,        \* fetchSoil: loop counter `attempt`
    fits,           \* tFit, rFit, sFit, phFit, soilQuality
    envScore, stress,
    d, biomass, alive, timeline,
    finalScore, status, limits,
    res,            \* the HTTP response (status code and JSON body)
    call, ret       \* one call of a pure part of the engine: arguments, result

handlerVars == <<cropDataCache, pc, nreq, body, parsed, reqs, climSt, climR,
                 soilSt, soilR, attempt>>
engineVars  == <<fits, envScore, stress, d, biomass, alive, timeline,
                 finalScore, status, limits, res>>
engineVarsButRes == <<fits, envScore, stress, d, biomass, alive, timeline,
                      finalScore, status, limits>>
callVars    == <<call, ret>>
vars        == <<handlerVars, engineVars, callVars>>

----------------------------------------------------------------------------
(* Bounds of the model *)

MaxObs == 3          \* observations and thresholds range over 0..MaxObs
MaxDayObs == 2       \* the same, for the runs that are followed day by day
MaxLevel == 1        \* temperature and pH levels for whole evaluations of the engine
MaxRequests == 2     \* requests handled one after the other

----------------------------------------------------------------------------
(* Non-finite and missing values *)

NaN       == -999999999
Infinity  == 999999999
null      == -888888888
undefined == -777777777
none      == [undefined |-> TRUE]

\* global isFinite(x): the argument is converted with Number(x) first, so
\* null counts as 0 (finite) and undefined as NaN
isFinite(x) == x # NaN /\ x # Infinity /\ x # -Infinity /\ x # undefined

\* a ?? b
Coalesce(a, b) == IF a = null THEN b ELSE a

\* Math.min / Math.max: NaN if either argument is NaN
mathMin(a, b) == IF a = NaN \/ b = NaN THEN NaN ELSE IF a < b THEN a ELSE b
mathMax(a, b) == IF a = NaN \/ b = NaN THEN NaN ELSE IF a > b THEN a ELSE b

----------------------------------------------------------------------------
(* Fixed-point units *)

FitOne == 600                 \* the fit value 1
EnvOne == 100 * FitOne        \* envScore 1 (weights are in hundredths)
BioOne == 1000 * EnvOne       \* biomass 1 (growth constants are in thousandths)

\* dist / span of two integers as a fit-scaled number; x/0 is Infinity and
\* 0/0 is NaN, as for IEEE doubles
Divide(dist, span) ==
    IF span = 0
    THEN IF dist = 0 THEN NaN ELSE IF dist > 0 THEN Infinity ELSE -Infinity
    ELSE (dist * FitOne) \div span

----------------------------------------------------------------------------
(* Fit Evaluator *)

rangeFit_wrongSpan(val, r) ==
    IF ~isFinite(val) \/ r = none THEN FitOne \div 2
    ELSE IF val < r.min \/ val > r.max THEN 0
    ELSE IF val >= r.idealMin /\ val <= r.idealMax THEN FitOne
    ELSE LET dist == IF val < r.idealMin THEN r.idealMin - val
                                         ELSE val - r.idealMax
             span == r.max - r.min
             penalty == mathMin(FitOne, Divide(dist, span))
         IN  IF penalty = NaN THEN NaN
             ELSE FitOne - (6 * penalty) \div 10

rangeFit_noExclusion(val, r) ==
    IF ~isFinite(val) \/ r = none THEN FitOne \div 2
    ELSE IF val >= r.idealMin /\ val <= r.idealMax THEN FitOne
    ELSE LET dist == IF val < r.idealMin THEN r.idealMin - val
                                         ELSE val - r.idealMax
             span == IF val < r.idealMin THEN r.idealMin - r.min
                                         ELSE r.max - r.idealMax
             penalty == mathMin(FitOne, Divide(dist, span))
         IN  IF penalty = NaN THEN NaN
             ELSE FitOne - (6 * penalty) \div 10

rangeFit_noFloor(val, r) ==
    IF ~isFinite(val) \/ r = none THEN FitOne \div 2
    ELSE IF val < r.min \/ val > r.max THEN 0
    ELSE IF val >= r.idealMin /\ val <= r.idealMax THEN FitOne
    ELSE LET dist == IF val < r.idealMin THEN r.idealMin - val
                                         ELSE val - r.idealMax
             span == IF val < r.idealMin THEN r.idealMin - r.min
                                         ELSE r.max - r.idealMax
             penalty == mathMin(FitOne, Divide(dist, span))
         IN  IF penalty = NaN THEN NaN
             ELSE FitOne - penalty

rangeFit(val, r) ==
    IF ~isFinite(val) \/ r = none THEN FitOne \div 2
    ELSE IF val < r.min \/ val > r.max THEN 0
    ELSE IF val >= r.idealMin /\ val <= r.idealMax THEN FitOne
    ELSE LET dist == IF val < r.idealMin THEN r.idealMin - val
                                         ELSE val - r.idealMax
             span == IF val < r.idealMin THEN r.idealMin - r.min
                                         ELSE r.max - r.idealMax
             penalty == mathMin(FitOne, Divide(dist, span))
         IN  IF penalty = NaN THEN NaN
             ELSE FitOne - (6 * penalty) \div 10

\* the span rangeFit divides by, when it reaches the division
rangeFitDivides(val, r) ==
    /\ isFinite(val) /\ r # none
    /\ ~(val < r.min \/ val > r.max)
    /\ ~(val >= r.idealMin /\ val <= r.idealMax)

rangeFitSpan(val, r) ==
    IF val < r.idealMin THEN r.idealMin - r.min ELSE r.max - r.idealMax

rangeFitDist(val, r) ==
    IF val < r.idealMin THEN r.idealMin - val ELSE val - r.idealMax

----------------------------------------------------------------------------
(* SIMULATION_CONSTANTS and the constants of the handler.  Weights, the    *)
(* stress thresholds and the soil constants are in hundredths; the growth  *)
(* constants and the rainfall shock are in thousandths.                    *)

W_temperature == 35
W_rainfall    == 30
W_solar       == 15
W_soil        == 20

G_baseRate        == 12
G_envFactor       == 18
G_stressThreshold == 60
G_decayFactor     == 40

S_socContributionFactor == 150
S_maxSocBonus           == 20
S_texturePenalty        == 20

days              == 120
M_germination     == 7
M_vegetative      == 45
M_flowering       == 80
M_grainfill       == 110
DefaultMinRain    == 400
RainShock         == 3
MortalityDay      == 20
MortalityStress   == 70
FailBiomass       == 200
StruggleBelow     == 60
GoodBelow         == 80

\* a number of hundredths as a fit / as an envScore
FitPct(n) == (n * FitOne) \div 100
EnvPct(n) == (n * EnvOne) \div 100

----------------------------------------------------------------------------
(* Soil Quality Aggregator *)

texturePenalty_onePenalty(clay, sand, soilTexture) ==
    IF (isFinite(clay) /\ clay > soilTexture.clayMax)
       \/ (isFinite(sand) /\ sand > soilTexture.sandMax)
    THEN FitPct(S_texturePenalty) ELSE 0

texturePenalty(clay, sand, soilTexture) ==
    LET p0 == 0
        p1 == IF isFinite(clay) /\ clay > soilTexture.clayMax
              THEN p0 + FitPct(S_texturePenalty) ELSE p0
        p2 == IF isFinite(sand) /\ sand > soilTexture.sandMax
              THEN p1 + FitPct(S_texturePenalty) ELSE p1
    IN  p2

socBonus(soc) ==
    IF isFinite(soc)
    THEN mathMin(FitPct(S_maxSocBonus),
                 (soc * FitOne) \div S_socContributionFactor)
    ELSE 0

soilQualityOf_noClamp(phFit, clay, sand, soc, soilTexture) ==
    IF phFit = NaN THEN NaN
    ELSE phFit - texturePenalty(clay, sand, soilTexture) + socBonus(soc)

soilQualityOf(phFit, clay, sand, soc, soilTexture) ==
    LET sum == IF phFit = NaN THEN NaN
               ELSE phFit - texturePenalty(clay, sand, soilTexture)
                          + socBonus(soc)
    IN  mathMax(0, mathMin(FitOne, sum))

----------------------------------------------------------------------------
(* Environmental Score Aggregator *)

envScoreOf(tFit, rFit, sFit, soilQuality) ==
    IF NaN \in {tFit, rFit, sFit, soilQuality} THEN NaN
    ELSE tFit * W_temperature + rFit * W_rainfall + sFit * W_solar
             + soilQuality * W_soil

stressOf(env) == IF env = NaN THEN NaN ELSE EnvOne - env

\* Math.round(envScore * 100)
finalScoreOf(env) ==
    IF env = NaN THEN NaN ELSE (env * 100 + EnvOne \div 2) \div EnvOne

----------------------------------------------------------------------------
(* Growth Timeline Simulator: one iteration of the loop over d *)

growthRate_baseOnly(env) == G_baseRate * EnvOne

growthRate(env) == G_baseRate * EnvOne + G_envFactor * env

decayOf_weak(strs) ==
    IF strs > EnvPct(G_stressThreshold)
    THEN (strs - EnvPct(G_stressThreshold)) * (G_decayFactor \div 10)
    ELSE 0

decayOf(strs) ==
    IF strs > EnvPct(G_stressThreshold)
    THEN (strs - EnvPct(G_stressThreshold)) * G_decayFactor
    ELSE 0

\* biomass = Math.max(0, Math.min(1, biomass + growthRate - decay))
grow_noClamp(b, env, strs) == b + growthRate(env) - decayOf(strs)

grow(b, env, strs) ==
    mathMax(0, mathMin(BioOne, b + growthRate(env) - decayOf(strs)))

\* const minRain = reqs.annualRainfallMm?.min ?? 400
minRainOf(rq) ==
    IF rq.annualRainfallMm = none THEN DefaultMinRain
    ELSE rq.annualRainfallMm.min

\* const shock = climR.annualRainMm < minRain ? 0.003 : 0
shockOf(annualRainMm, minRain) ==
    IF annualRainMm < minRain THEN RainShock * EnvOne ELSE 0

\* biomass = Math.max(0, biomass - shock)
applyShock(b, shock) == mathMax(0, b - shock)

\* if (biomass === 0 && d > 20 && stress > 0.7) alive = false
aliveAfter_reevaluated(a, b, day, strs) ==
    ~(b = 0 /\ day = MortalityDay + 1 /\ strs > EnvPct(MortalityStress))

aliveAfter_late(a, b, day, strs) ==
    IF b = 0 /\ day > MortalityDay + 1 /\ strs > EnvPct(MortalityStress)
    THEN FALSE ELSE a

aliveAfter(a, b, day, strs) ==
    IF b = 0 /\ day > MortalityDay /\ strs > EnvPct(MortalityStress)
    THEN FALSE ELSE a

stageOf(day) ==
    IF day < M_germination THEN "pre-germination"
    ELSE IF day < M_vegetative THEN "germination"
    ELSE IF day < M_flowering THEN "flowering"
    ELSE "maturity"

\* Number(biomass.toFixed(3)), in thousandths
toFixed3(b) == (b + (BioOne \div 1000) \div 2) \div (BioOne \div 1000)

frameOf(day, b, a) ==
    [day |-> day, biomass |-> toFixed3(b), stage |-> stageOf(day), alive |-> a]

----------------------------------------------------------------------------
(* Outcome Classifier *)

statusOf_scoreFirst(a, tl, score) ==
    IF score < StruggleBelow THEN "struggle"
    ELSE IF score < GoodBelow THEN "good"
    ELSE IF ~a /\ tl[days].biomass < FailBiomass THEN "fail"
    ELSE "great"

statusOf(a, tl, score) ==
    IF ~a /\ tl[days].biomass < FailBiomass THEN "fail"
    ELSE IF score < StruggleBelow THEN "struggle"
    ELSE IF score < GoodBelow THEN "good"
    ELSE "great"

limitsOf_phThreshold(f, clay, sand, soilTexture) ==
    (IF f.temperature < FitPct(40)
        THEN <<"Temperature outside comfortable range">> ELSE <<>>)
    \o (IF f.rainfall < FitPct(40)
        THEN <<"Insufficient or excessive rainfall">> ELSE <<>>)
    \o (IF f.solar < FitPct(40)
        THEN <<"Suboptimal solar radiation">> ELSE <<>>)
    \o (IF f.ph < FitPct(40)
        THEN <<"Soil pH unsuitable">> ELSE <<>>)
    \o (IF isFinite(clay) /\ clay > soilTexture.clayMax
        THEN <<"Soil too clayey (poor drainage)">> ELSE <<>>)
    \o (IF isFinite(sand) /\ sand > soilTexture.sandMax
        THEN <<"Soil too sandy (low water retention)">> ELSE <<>>)

limitsOf(f, clay, sand, soilTexture) ==
    (IF f.temperature < FitPct(40)
        THEN <<"Temperature outside comfortable range">> ELSE <<>>)
    \o (IF f.rainfall < FitPct(40)
        THEN <<"Insufficient or excessive rainfall">> ELSE <<>>)
    \o (IF f.solar < FitPct(40)
        THEN <<"Suboptimal solar radiation">> ELSE <<>>)
    \o (IF f.ph < FitPct(50)
        THEN <<"Soil pH unsuitable">> ELSE <<>>)
    \o (IF isFinite(clay) /\ clay > soilTexture.clayMax
        THEN <<"Soil too clayey (poor drainage)">> ELSE <<>>)
    \o (IF isFinite(sand) /\ sand > soilTexture.sandMax
        THEN <<"Soil too sandy (low water retention)">> ELSE <<>>)

----------------------------------------------------------------------------
(* fetchClimate: annualRainMm = Math.round((rainMmPerDay || 0) * 365) *)

annualRainOf(rainMmPerDay) ==
    IF rainMmPerDay = NaN \/ rainMmPerDay = 0 THEN 0
    ELSE rainMmPerDay * 365

----------------------------------------------------------------------------
(* Input domains *)

Obs == 0..MaxObs

\* every range with finite fields over a set of values, well ordered or not
RangesOver(O) == [min : O, max : O, idealMin : O, idealMax : O]
Ranges == RangesOver(Obs)

\* ThresholdRange of the data model: min <= idealMin <= idealMax <= max
WellFormed(r) == r.min <= r.idealMin /\ r.idealMin <= r.idealMax
                 /\ r.idealMax <= r.max

ThresholdRangesOver(O) == {r \in RangesOver(O) : WellFormed(r)}
ThresholdRanges == ThresholdRangesOver(Obs)

\* rainfall thresholds are in mm per year, observations in mm per day
PerYear(r) == [min |-> 365 * r.min, max |-> 365 * r.max,
               idealMin |-> 365 * r.idealMin, idealMax |-> 365 * r.idealMax]
RainRangesOver(O) == {PerYear(r) : r \in ThresholdRangesOver(O)}

\* the fits rangeFit can return, the soil qualities they can give, and the
\* (annual rainfall, rainfall range) pairs the handler can see
FitImage(O) ==
    {rangeFit(v, r) : v \in O \cup {NaN}, r \in ThresholdRangesOver(O) \cup {none}}
\* organic carbon in g/kg, in steps of 15 (the bonus is capped from 30 on)
SocOver(O) == {15 * k : k \in O}
SoilImage(O) ==
    {soilQualityOf(f, c[1], c[2], c[3], [clayMax |-> c[4], sandMax |-> c[5]]) :
        f \in FitImage(O),
        c \in (O \cup {NaN}) \X (O \cup {NaN}) \X (SocOver(O) \cup {NaN})
                \X O \X O}
RainCases(O) ==
    {annualRainOf(v) : v \in O \cup {NaN}} \X (RainRangesOver(O) \cup {none})

----------------------------------------------------------------------------
(* Values of the variables a specification does not use *)

IdleHandler ==
    /\ cropDataCache = <<>>
    /\ pc = "idle"
    /\ nreq = 0
    /\ body = none
    /\ parsed = none
    /\ reqs = none
    /\ climSt = "none" /\ climR = none
    /\ soilSt = "none" /\ soilR = none
    /\ attempt = 0

IdleEngine ==
    /\ fits = none
    /\ envScore = 0 /\ stress = 0
    /\ d = 0 /\ biomass = 0 /\ alive = TRUE /\ timeline = <<>>
    /\ finalScore = 0 /\ status = "" /\ limits = <<>>
    /\ res = none

IdleCall == call = none /\ ret = none

----------------------------------------------------------------------------
(* SpecFit: one call of rangeFit on every value and every range *)

InitFit ==
    /\ IdleHandler /\ IdleEngine
    /\ call \in [fn : {"rangeFit"}, val : Obs \cup {NaN},
                r : Ranges \cup {none}]
    /\ ret = none

CallRangeFit ==
    /\ call.fn = "rangeFit" /\ ret = none
    /\ ret' = [value |-> rangeFit(call.val, call.r)]
    /\ UNCHANGED <<call, handlerVars, engineVars>>

NextFit == CallRangeFit

SpecFit == InitFit /\ [][NextFit]_vars

----------------------------------------------------------------------------
(* The timeline loop (server.js lines 383-416).  dayStep is the body of    *)
(* one iteration on the loop state [d, biomass, alive, timeline].          *)

dayStep(st, env, strs, annualRainMm, rq) ==
    LET grown   == grow(st.biomass, env, strs)
        shock   == shockOf(annualRainMm, minRainOf(rq))
        shocked == applyShock(grown, shock)
        a       == aliveAfter(st.alive, shocked, st.d, strs)
    IN  [d        |-> st.d + 1,
         biomass  |-> shocked,
         alive    |-> a,
         timeline |-> Append(st.timeline, frameOf(st.d, shocked, a))]

\* for (let d = 1; d <= days; d++) { ... }: one iteration per step
Day ==
    /\ pc = "loop" /\ d <= days
    /\ LET st == dayStep([d |-> d, biomass |-> biomass, alive |-> alive,
                          timeline |-> timeline],
                         envScore, stress, climR.annualRainMm, reqs)
       IN  /\ d' = st.d
           /\ biomass' = st.biomass
           /\ alive' = st.alive
           /\ timeline' = st.timeline
    /\ UNCHANGED <<handlerVars, callVars, fits, envScore, stress,
                   finalScore, status, limits, res>>

\* the final score and status (lines 418-426), after the last iteration
Classify ==
    /\ pc = "loop" /\ d > days
    /\ finalScore' = finalScoreOf(envScore)
    /\ status' = statusOf(alive, timeline, finalScoreOf(envScore))
    /\ pc' = "classified"
    /\ UNCHANGED <<cropDataCache, nreq, body, parsed, reqs, climSt, climR, soilSt,
                   soilR, attempt, callVars, fits, envScore, stress, d,
                   biomass, alive, timeline, limits, res>>

----------------------------------------------------------------------------
(* SpecDays: the timeline loop followed day by day, from every envScore    *)
(* and rainfall shock that the scoring (server.js lines 341-381) produces  *)
(* over the observations 0..MaxDayObs.  Only the variables the loop and    *)
(* the status read are set; rainfall inputs that give the same rainfall    *)
(* fit and the same shock are represented by one of them.                  *)

DayObs == 0..MaxDayObs

RainKey(c) ==
    <<rangeFit(c[1], c[2]),
      shockOf(c[1], minRainOf([annualRainfallMm |-> c[2]]))>>
RainReps(O) ==
    {CHOOSE c \in RainCases(O) : RainKey(c) = k :
        k \in {RainKey(c) : c \in RainCases(O)}}

InitDays ==
    /\ cropDataCache = <<>> /\ nreq = 1 /\ body = none /\ parsed = none
    /\ climSt = "done" /\ soilSt = "done" /\ soilR = none /\ attempt = 0
    /\ call = none /\ ret = none
    /\ fits = none /\ limits = <<>> /\ res = none
    /\ finalScore = 0 /\ status = ""
    /\ \E t \in FitImage(DayObs), s \in FitImage(DayObs),
          q \in SoilImage(DayObs), c \in RainReps(DayObs) :
          /\ climR = [annualRainMm |-> c[1]]
          /\ reqs = [annualRainfallMm |-> c[2]]
          /\ envScore = envScoreOf(t, rangeFit(c[1], c[2]), s, q)
          /\ stress = stressOf(envScoreOf(t, rangeFit(c[1], c[2]), s, q))
    /\ pc = "loop" /\ d = 1 /\ biomass = 0 /\ alive = TRUE /\ timeline = <<>>

NextDays == Day \/ Classify

SpecDays == InitDays /\ [][NextDays]_vars

----------------------------------------------------------------------------
(* SpecSoil: one evaluation of the soil quality (server.js lines 345-364)  *)
(* on every pH fit, clay, sand and soc and every texture threshold         *)

InitSoil ==
    /\ IdleHandler /\ IdleEngine
    /\ call \in [fn : {"soilQuality"}, phFit : FitImage(Obs),
                clay : Obs \cup {NaN}, sand : Obs \cup {NaN},
                soc : SocOver(Obs) \cup {NaN},
                soilTexture : [clayMax : Obs, sandMax : Obs]]
    /\ ret = none

CallSoilQuality ==
    /\ call.fn = "soilQuality" /\ ret = none
    /\ ret' = [texturePenalty |->
                   texturePenalty(call.clay, call.sand, call.soilTexture),
               socBonus |-> socBonus(call.soc),
               soilQuality |->
                   soilQualityOf(call.phFit, call.clay, call.sand, call.soc,
                                 call.soilTexture)]
    /\ UNCHANGED <<call, handlerVars, engineVars>>

NextSoil == CallSoilQuality

SpecSoil == InitSoil /\ [][NextSoil]_vars

----------------------------------------------------------------------------
(* The synchronous part of the handler after `await Promise.all`           *)
(* (server.js lines 325-455): Score, then Day 120 times, Classify, Respond *)

\* lines 325-385: the fits, envScore and stress, and the loop's start
Score ==
    /\ pc = "fetching" /\ climSt = "done" /\ soilSt = "done"
    /\ LET ph   == Coalesce(soilR.ph, NaN)
           clay == Coalesce(soilR.clay, NaN)
           sand == Coalesce(soilR.sand, NaN)
           soc  == Coalesce(soilR.soc, NaN)
           tFit == rangeFit(climR.tempC, reqs.temperatureC)
           rFit == rangeFit(climR.annualRainMm, reqs.annualRainfallMm)
           sFit == rangeFit(climR.solarMJm2day, reqs.solarMJm2day)
           phFit == rangeFit(ph, reqs.soilPh)
           soilQuality == soilQualityOf(phFit, clay, sand, soc, reqs.soilTexture)
           env  == envScoreOf(tFit, rFit, sFit, soilQuality)
       IN  /\ fits' = [temperature |-> tFit, rainfall |-> rFit,
                       solar |-> sFit, ph |-> phFit, soil |-> soilQuality]
           /\ envScore' = env
           /\ stress' = stressOf(env)
    /\ timeline' = <<>> /\ biomass' = 0 /\ alive' = TRUE /\ d' = 1
    /\ pc' = "loop"
    /\ UNCHANGED <<cropDataCache, nreq, body, parsed, reqs, climSt, climR,
                   soilSt, soilR, attempt, callVars, finalScore, status,
                   limits, res>>

\* lines 428-455: limits and res.json(...)
Respond ==
    /\ pc = "classified"
    /\ LET lim == limitsOf(fits, Coalesce(soilR.clay, NaN),
                           Coalesce(soilR.sand, NaN), reqs.soilTexture)
       IN  /\ limits' = lim
           /\ res' = [code |-> 200, score |-> finalScore, status |-> status,
                      timeline |-> timeline,
                      fits |-> [temperature |-> fits.temperature,
                                rainfall |-> fits.rainfall,
                                solar |-> fits.solar, soil |-> fits.soil],
                      limits |-> lim]
    /\ pc' = "done"
    /\ UNCHANGED <<cropDataCache, nreq, body, parsed, reqs, climSt, climR,
                   soilSt, soilR, attempt, callVars, fits, envScore, stress,
                   d, biomass, alive, timeline, finalScore, status>>

----------------------------------------------------------------------------
(* Records the collaborators return *)

\* fetchClimate (lines 69-84); rhPct and windMps are not read by the handler
climateRecord(tempC, rainMmPerDay, solar) ==
    [tempC |-> tempC, rainMmPerDay |-> rainMmPerDay,
     annualRainMm |-> annualRainOf(rainMmPerDay), solarMJm2day |-> solar]

\* fetchSoil's default record, with the reason it was returned; pH in tenths
defaultSoil(error) ==
    [ph |-> 65, soc |-> 15, clay |-> 25, silt |-> 35, sand |-> 40,
     error |-> error]

\* const hasValidData = Object.values(result).some(...)
hasValidData(rec) ==
    \E k \in {"ph", "soc", "clay", "silt", "sand"} : rec[k] # null

----------------------------------------------------------------------------
(* SpecEngine: one whole evaluation (fits, timeline, status, limits) from  *)
(* the moment climate, soil and requirements are available, on every       *)
(* climate and soil observation over 0..MaxLevel (or unknown) and a family *)
(* pair of crop requirements                                               *)

Levels == 0..MaxLevel

\* two crops: one fully specified, with a tolerable band above the ideal
\* point; one without rainfall and solar ranges, with a band below it
UpperBand == [min |-> 1, idealMin |-> 1, idealMax |-> 1, max |-> 2]
LowerBand == [min |-> 0, idealMin |-> 1, idealMax |-> 1, max |-> 1]

EngineReqs ==
    {[temperatureC |-> UpperBand, annualRainfallMm |-> PerYear(UpperBand),
      solarMJm2day |-> UpperBand, soilPh |-> UpperBand,
      soilTexture |-> [clayMax |-> 0, sandMax |-> 0]],
     [temperatureC |-> LowerBand, annualRainfallMm |-> none,
      solarMJm2day |-> none, soilPh |-> LowerBand,
      soilTexture |-> [clayMax |-> 0, sandMax |-> 0]]}

\* temperature ranges over the levels; rainfall and solar radiation are
\* below the range, ideal or unknown
EngineClimates ==
    {climateRecord(t, rain, s) :
        t \in Levels \cup {NaN}, rain \in {0, 1, NaN},
        s \in {0, 1, NaN}}

\* pH ranges over the levels; soc and clay are 0, positive or missing, sand
\* is above its maximum or missing; a record with silt only is also valid
EngineSoils ==
    {rec \in [ph : Levels \cup {null}, soc : SocOver({0, 1}) \cup {null},
              clay : {0, 1, null}, sand : {1, null},
              silt : {null, 35}] :
        hasValidData(rec) /\ (rec.silt # null =>
            rec.ph = null /\ rec.soc = null /\ rec.clay = null /\ rec.sand = null)}
    \cup {defaultSoil("API unavailable")}

InitEngine ==
    /\ cropDataCache = <<>> /\ nreq = 1 /\ body = none /\ parsed = none
    /\ attempt = 0
    /\ IdleEngine /\ IdleCall
    /\ pc = "fetching" /\ climSt = "done" /\ soilSt = "done"
    /\ reqs \in EngineReqs
    /\ climR \in EngineClimates
    /\ soilR \in EngineSoils

NextEngine == Score \/ Day \/ Classify \/ Respond

SpecEngine == InitEngine /\ [][NextEngine]_vars

----------------------------------------------------------------------------
(* Spec: the server handling POST /api/simulate requests one after the     *)
(* other, with the crop cache kept between them                            *)

maxRetries == 5

Crops == {"maize", "rice"}

\* req.body: lat and lon are a number, null, or absent; crop may be empty
Bodies == [lat : {0, 91, null, undefined}, lon : {0, undefined},
           crop : Crops \cup {""}]

\* Number(x) as used by the relational operators
ToNumber(x) == IF x = null THEN 0 ELSE x

\* if (!isFinite(lat) || !isFinite(lon) || !crop) return res.status(400)
badRequest(b) == ~isFinite(b.lat) \/ ~isFinite(b.lon) \/ b.crop = ""

\* fetchSoil: if (lat < -90 || lat > 90 || lon < -180 || lon > 180)
invalidCoordinates(lat, lon) ==
    \/ ToNumber(lat) < -90 \/ ToNumber(lat) > 90
    \/ ToNumber(lon) < -180 \/ ToNumber(lon) > 180

\* what Gemini may answer: the two complete requirement sets and three
\* replies that lack one of the required keys
GeminiReplies ==
    EngineReqs \cup
    {[r EXCEPT ![k] = none] :
        r \in {CHOOSE q \in EngineReqs : q.solarMJm2day # none},
        k \in {"temperatureC", "soilPh", "soilTexture"}}

\* if (!parsed.temperatureC || !parsed.soilPh || !parsed.soilTexture) throw
invalidStructure_noPh(p) == p.temperatureC = none \/ p.soilTexture = none

invalidStructure(p) ==
    p.temperatureC = none \/ p.soilPh = none \/ p.soilTexture = none

\* what the climate and soil services may answer
ClimateReplies == {climateRecord(1, 1, 1), climateRecord(NaN, NaN, 1)}

SoilReplies ==
    {[ph |-> 1, soc |-> 15, clay |-> null, silt |-> 35, sand |-> 1]}

Init ==
    /\ IdleHandler /\ IdleEngine /\ IdleCall

\* a request arrives; the locals of the previous one are gone
Receive ==
    /\ pc \in {"idle", "done"} /\ soilSt # "pending"
    /\ nreq < MaxRequests
    /\ nreq' = nreq + 1
    /\ body' \in Bodies
    /\ pc' = "received"
    /\ parsed' = none /\ reqs' = none
    /\ climSt' = "none" /\ climR' = none
    /\ soilSt' = "none" /\ soilR' = none /\ attempt' = 0
    /\ fits' = none /\ envScore' = 0 /\ stress' = 0
    /\ d' = 0 /\ biomass' = 0 /\ alive' = TRUE /\ timeline' = <<>>
    /\ finalScore' = 0 /\ status' = "" /\ limits' = <<>>
    /\ res' = none
    /\ UNCHANGED <<cropDataCache, callVars>>

\* lines 309-311
BadRequest ==
    /\ pc = "received" /\ badRequest(body)
    /\ res' = [code |-> 400, error |-> "lat, lon, and crop are required"]
    /\ pc' = "done"
    /\ UNCHANGED <<cropDataCache, nreq, body, parsed, reqs, climSt, climR,
                   soilSt, soilR, attempt, callVars, fits, envScore, stress,
                   d, biomass, alive, timeline, finalScore, status, limits>>

\* lines 314-318: if (!reqs) return res.status(404)
NotFound ==
    /\ reqs' = none
    /\ res' = [code |-> 404, error |-> "Could not find agronomic data"]
    /\ pc' = "done"
    /\ UNCHANGED <<climSt, climR, soilSt, soilR, attempt>>

\* fetchSoil, lines 100-115: the defaults are returned at once for
\* coordinates out of range; otherwise the loop starts with attempt = 1
fetchSoilCall(lat, lon) ==
    IF invalidCoordinates(lat, lon)
    THEN soilSt' = "done" /\ attempt' = 0
         /\ soilR' = defaultSoil("Invalid coordinates")
    ELSE soilSt' = "pending" /\ soilR' = none /\ attempt' = 1

\* lines 320-323: Promise.all([fetchClimate(lat, lon), fetchSoil(lat, lon)])
StartFetches ==
    /\ pc' = "fetching"
    /\ climSt' = "pending" /\ climR' = none
    /\ fetchSoilCall(body.lat, body.lon)
    /\ res' = none

\* getCropDataFromGemini, lines 255-258: cache hit
CacheHit ==
    /\ pc = "received" /\ ~badRequest(body)
    /\ body.crop \in DOMAIN cropDataCache
    /\ reqs' = cropDataCache[body.crop]
    /\ StartFetches
    /\ UNCHANGED <<cropDataCache, nreq, body, parsed, callVars, engineVarsButRes>>

\* lines 263-266 and 297-303: no API key, or the import, the request or
\* JSON.parse throws: the helper returns null
GeminiFails ==
    /\ pc = "received" /\ ~badRequest(body)
    /\ body.crop \notin DOMAIN cropDataCache
    /\ NotFound
    /\ UNCHANGED <<cropDataCache, nreq, body, parsed, callVars, engineVarsButRes>>

\* lines 285-290 and 297-303: a reply without a required key throws, the
\* helper returns null
GeminiInvalidReply ==
    /\ pc = "received" /\ ~badRequest(body)
    /\ body.crop \notin DOMAIN cropDataCache
    /\ \E p \in GeminiReplies :
          /\ invalidStructure(p)
          /\ parsed' = p
    /\ NotFound
    /\ UNCHANGED <<cropDataCache, nreq, body, callVars, engineVarsButRes>>

\* lines 285-296: a complete reply is cached and returned
GeminiValidReply ==
    /\ pc = "received" /\ ~badRequest(body)
    /\ body.crop \notin DOMAIN cropDataCache
    /\ \E p \in GeminiReplies :
          /\ ~invalidStructure(p)
          /\ parsed' = p
          /\ cropDataCache' =
                 [c \in DOMAIN cropDataCache \cup {body.crop} |->
                     IF c = body.crop THEN p ELSE cropDataCache[c]]
          /\ reqs' = p
    /\ StartFetches
    /\ UNCHANGED <<nreq, body, callVars, engineVarsButRes>>

\* fetchClimate, lines 64-84
ClimateArrives ==
    /\ pc = "fetching" /\ climSt = "pending"
    /\ climR' \in ClimateReplies
    /\ climSt' = "done"
    /\ UNCHANGED <<cropDataCache, pc, nreq, body, parsed, reqs, soilSt, soilR,
                   attempt, callVars, engineVars>>

\* fetchClimate throws (line 65, or fetch / r.json() rejects): Promise.all
\* rejects and the handler's catch answers 500 (lines 456-459); a soil
\* retrieval still under way goes on
ClimateFails_swallowed ==
    /\ pc = "fetching" /\ climSt = "pending"
    /\ climSt' = "failed"
    /\ UNCHANGED <<cropDataCache, pc, nreq, body, parsed, reqs, climR, soilSt,
                   soilR, attempt, callVars, engineVars>>

ClimateFails ==
    /\ pc = "fetching" /\ climSt = "pending"
    /\ climSt' = "failed"
    /\ res' = [code |-> 500, error |-> "POWER fetch failed"]
    /\ pc' = "done"
    /\ UNCHANGED <<cropDataCache, nreq, body, parsed, reqs, climR, soilSt,
                   soilR, attempt, callVars, engineVarsButRes>>

\* HTTP statuses of a response that is not OK: two client errors that are
\* final, and a request timeout, a rate limit and a server error
SoilStatuses == {404, 408, 429, 503}

\* const shouldRetry = (5xx || 429 || 408 || 502 || 503 || 504)
\*                     && attempt < maxRetries
shouldRetry_anyStatus(httpStatus, att) == att < maxRetries

shouldRetry(httpStatus, att) ==
    /\ \/ (httpStatus >= 500 /\ httpStatus < 600)
       \/ httpStatus = 429 \/ httpStatus = 408
       \/ httpStatus = 502 \/ httpStatus = 503 \/ httpStatus = 504
    /\ att < maxRetries

\* error: `API error ${r.status} - using defaults`
apiError(httpStatus) == "API error " \o ToString(httpStatus)

\* In the three actions of an attempt, ret is what the attempt that was just
\* handled got from fetch: the status of a response that is not OK, or an
\* exception; it is gone once fetchSoil has returned.

\* fetchSoil, lines 125-214: a response with soil data
SoilArrives ==
    /\ soilSt = "pending"
    /\ soilR' \in SoilReplies
    /\ soilSt' = "done"
    /\ ret' = none
    /\ UNCHANGED <<cropDataCache, pc, nreq, body, parsed, reqs, climSt, climR,
                   attempt, call, engineVars>>

\* fetchSoil, lines 136-178: a response that is not OK is retried after a
\* delay, or answered with the defaults
SoilHttpError ==
    /\ soilSt = "pending"
    /\ \E httpStatus \in SoilStatuses :
          IF shouldRetry(httpStatus, attempt)
          THEN /\ attempt' = attempt + 1
               /\ ret' = [status |-> httpStatus]
               /\ UNCHANGED <<soilSt, soilR>>
          ELSE /\ soilSt' = "done"
               /\ soilR' = defaultSoil(apiError(httpStatus))
               /\ ret' = none
               /\ UNCHANGED attempt
    /\ UNCHANGED <<cropDataCache, pc, nreq, body, parsed, reqs, climSt, climR,
                   call, engineVars>>

\* fetchSoil, lines 215-248: fetch or r.json() throws, the request times
\* out, or the body has no layers or no data
SoilException ==
    /\ soilSt = "pending"
    /\ IF attempt = maxRetries
       THEN /\ soilSt' = "done" /\ soilR' = defaultSoil("API unavailable")
            /\ ret' = none
            /\ UNCHANGED attempt
       ELSE /\ attempt' = attempt + 1
            /\ ret' = [threw |-> TRUE]
            /\ UNCHANGED <<soilSt, soilR>>
    /\ UNCHANGED <<cropDataCache, pc, nreq, body, parsed, reqs, climSt, climR,
                   call, engineVars>>

Next ==
    \/ Receive \/ BadRequest
    \/ CacheHit \/ GeminiFails \/ GeminiInvalidReply \/ GeminiValidReply
    \/ ClimateArrives \/ ClimateFails
    \/ SoilArrives \/ SoilHttpError \/ SoilException
    \/ Score \/ Day \/ Classify \/ Respond

Spec == Init /\ [][Next]_vars

----------------------------------------------------------------------------
(* SpecSoilFetch: one call of fetchSoil(lat, lon) (server.js lines 88-250) *)
(* on coordinates around the limits of the valid range, with every         *)
(* sequence of outcomes of its attempts.  Every attempt settles: fetch     *)
(* resolves, rejects or is aborted by the 15 s timer, and the delay before *)
(* the next attempt is a timer of at most 10 s.                            *)

SoilBodies == [lat : {-91, -90, 0, 90, 91, null},
               lon : {-181, -180, 0, 180, 181},
               crop : {"maize"}]

InitSoilFetch ==
    /\ IdleEngine /\ IdleCall
    /\ cropDataCache = <<>> /\ nreq = 1 /\ parsed = none /\ reqs = none
    /\ climSt = "none" /\ climR = none
    /\ soilSt = "none" /\ soilR = none /\ attempt = 0
    /\ pc = "fetching"
    /\ body \in SoilBodies

CallFetchSoil ==
    /\ pc = "fetching" /\ soilSt = "none"
    /\ fetchSoilCall(body.lat, body.lon)
    /\ UNCHANGED <<cropDataCache, pc, nreq, body, parsed, reqs, climSt, climR,
                   callVars, engineVars>>

NextSoilFetch ==
    CallFetchSoil \/ SoilArrives \/ SoilHttpError \/ SoilException

SpecSoilFetch ==
    InitSoilFetch /\ [][NextSoilFetch]_vars /\ WF_vars(NextSoilFetch)

----------------------------------------------------------------------------
(* Properties of rangeFit (SpecFit) *)

Abs(x) == IF x < 0 THEN -x ELSE x
Min2(a, b) == IF a < b THEN a ELSE b

\* C3: rangeFit(value, range) is the piecewise fit function of the design:
\* 0.5 when the value is not finite or the range is absent; otherwise, for a
\* threshold range (min <= idealMin <= idealMax <= max), 0 outside
\* [min, max], 1 inside [idealMin, idealMax], and 1 - 0.6 * min(1, dist/span)
\* in between, where dist is the distance to the nearer ideal bound and span
\* the width of the tolerable band on the value's side.  The last equality
\* is exact whenever the quotient is representable in the fixed-point unit
\* and otherwise holds up to the rounding of that unit.
RangeFitIsPiecewiseFit ==
    ret # none =>
        LET v == call.val
            r == call.r
            f == ret.value
        IN  /\ (~isFinite(v) \/ r = none) => 2 * f = FitOne
            /\ (isFinite(v) /\ r # none /\ WellFormed(r)) =>
                 IF v < r.min \/ v > r.max THEN f = 0
                 ELSE IF r.idealMin <= v /\ v <= r.idealMax THEN f = FitOne
                 ELSE LET dist == Min2(Abs(v - r.idealMin), Abs(v - r.idealMax))
                          span == IF v < r.idealMin THEN r.idealMin - r.min
                                                    ELSE r.max - r.idealMax
                          lost == FitOne - f      \* 0.6 * penalty
                          want == 6 * FitOne * Min2(dist, span)
                      IN  /\ span > 0
                          /\ 10 * span * lost <= want
                          /\ want < 10 * span * (lost + 2)
                          /\ (want % (10 * span) = 0) => 10 * span * lost = want

\* C3 witness: a call that lands strictly inside the tolerable band, where
\* the fit is strictly between the floor 0.4 and 1
RangeFitInBandReached ==
    /\ ret # none
    /\ isFinite(call.val) /\ call.r # none /\ WellFormed(call.r)
    /\ rangeFitDivides(call.val, call.r)
    /\ 10 * ret.value > 4 * FitOne /\ ret.value < FitOne

\* C4: for every finite value and every range with finite fields (well
\* ordered or not, degenerate or not), when rangeFit reaches the division
\* dist/span the span is > 0 and dist is > 0, and the fit it returns is never
\* NaN; on a degenerate side (idealMin = min or idealMax = max) a value at
\* distance 0 gets fit 1 and a value at distance > 0 is outside [min, max]
\* and gets fit 0 without any division.
SpanNeverZero ==
    (ret # none /\ isFinite(call.val) /\ call.r # none) =>
        LET v == call.val
            r == call.r
            f == ret.value
        IN  /\ f # NaN /\ f >= 0 /\ f <= FitOne
            /\ rangeFitDivides(v, r) =>
                  /\ rangeFitSpan(v, r) > 0
                  /\ rangeFitDist(v, r) > 0
            /\ (r.idealMin = r.min /\ v = r.min /\ v <= r.idealMax
                  /\ v <= r.max) => f = FitOne
            /\ (r.idealMin = r.min /\ v < r.min) => f = 0
            /\ (r.idealMax = r.max /\ v = r.max /\ v >= r.idealMin
                  /\ v >= r.min) => f = FitOne
            /\ (r.idealMax = r.max /\ v > r.max) => f = 0

\* C4 witness: a degenerate range (one side has no tolerable band) whose
\* other side is reached, so the division is executed
DegenerateRangeDivided ==
    /\ ret # none
    /\ isFinite(call.val) /\ call.r # none
    /\ call.r.idealMin = call.r.min
    /\ rangeFitDivides(call.val, call.r)

\* C11: for every finite value inside [min, max] of a threshold range
\* (min <= idealMin <= idealMax <= max) the fit is at least 0.4; the fit is
\* 0 only when the value is outside [min, max]; at value = min and at
\* value = max the fit is 0.4, or 1 when that bound is also an ideal bound.
FitFloorInsideRange ==
    (ret # none /\ call.fn = "rangeFit" /\ isFinite(call.val)
       /\ call.r # none /\ WellFormed(call.r)) =>
        LET v == call.val
            r == call.r
            f == ret.value
        IN  /\ (r.min <= v /\ v <= r.max) => 10 * f >= 4 * FitOne
            /\ f = 0 => (v < r.min \/ v > r.max)
            /\ v = r.min =>
                  f = (IF r.min = r.idealMin THEN FitOne ELSE FitPct(40))
            /\ v = r.max =>
                  f = (IF r.max = r.idealMax THEN FitOne ELSE FitPct(40))

\* C11 witness: a value on the hard lower boundary, below the ideal band,
\* that got the floor 0.4
FitAtHardBoundary ==
    /\ ret # none /\ call.fn = "rangeFit" /\ isFinite(call.val)
    /\ call.r # none /\ WellFormed(call.r)
    /\ call.val = call.r.min /\ call.r.min < call.r.idealMin
    /\ 10 * ret.value = 4 * FitOne

----------------------------------------------------------------------------
(* Properties of the timeline loop (SpecDays) *)

NoShock == shockOf(climR.annualRainMm, minRainOf(reqs)) = 0
Finished == pc = "classified"

\* C1: alive is monotonic over the timeline of one run: for all days
\* d1 < d2 in 1..120, a frame of day d1 with alive = false implies that the
\* frame of day d2 has alive = false; while the run is in progress, a frame
\* that is not alive is never followed by one that is, and the variable
\* alive is false whenever the last frame is not alive.
AliveMonotonic ==
    /\ Finished =>
         \A d1 \in 1..days : ~timeline[d1].alive =>
             \A d2 \in (d1 + 1)..days : ~timeline[d2].alive
    /\ Len(timeline) >= 2 =>
         (~timeline[Len(timeline) - 1].alive => ~timeline[Len(timeline)].alive)
    /\ Len(timeline) >= 1 => (timeline[Len(timeline)].alive = alive)

\* C1 witness: a finished run in which the mortality rule fired
DiedDuringRun ==
    /\ Finished
    /\ timeline[MortalityDay].alive /\ ~timeline[MortalityDay + 1].alive
    /\ ~timeline[days].alive

\* C2: the timeline of a finished run has exactly 120 frames, frame i has
\* day = i, every frame's biomass is in [0,1], and the running biomass is in
\* [0,1] after the growth/decay step and after the rainfall-shock step of
\* every day.
TimelineShape ==
    /\ Len(timeline) = d - 1 /\ Len(timeline) <= days
    /\ Finished => Len(timeline) = days
    /\ Finished =>
         \A i \in 1..days :
             /\ timeline[i].day = i
             /\ timeline[i].biomass >= 0 /\ timeline[i].biomass <= 1000
    /\ Len(timeline) >= 1 =>
         /\ timeline[Len(timeline)].day = Len(timeline)
         /\ timeline[Len(timeline)].biomass >= 0
         /\ timeline[Len(timeline)].biomass <= 1000
    /\ biomass >= 0 /\ biomass <= BioOne
    /\ d <= days =>
         LET grown == grow(biomass, envScore, stress)
             shocked == applyShock(grown,
                           shockOf(climR.annualRainMm, minRainOf(reqs)))
         IN  /\ grown >= 0 /\ grown <= BioOne
             /\ shocked >= 0 /\ shocked <= BioOne

\* C2 witness: a finished run whose biomass hit the upper clamp, so that
\* the unclamped sum biomass + growthRate - decay exceeded 1
ClampedRunFinished ==
    /\ Finished
    /\ Len(timeline) = days
    /\ biomass = BioOne
    /\ biomass + growthRate(envScore) - decayOf(stress) > BioOne

\* C5: with envScore = 0 (stress = 1), with or without rainfall shock, the
\* daily decay (0.016) exceeds the daily growth (0.012), biomass is 0 on
\* every day, alive is true on days 1..20 and false on days 21..120, and
\* the final status is "fail".
WorstFitScenario ==
    envScore = 0 =>
        /\ stress = EnvOne
        /\ decayOf(stress) > growthRate(envScore)
        /\ biomass = 0
        /\ \A i \in 1..Len(timeline) :
              /\ timeline[i].biomass = 0
              /\ timeline[i].alive = (i <= MortalityDay)
        /\ Finished => status = "fail"

\* C5 witness: a finished worst-fit run (here without rainfall shock: the
\* rainfall is above the crop's maximum)
WorstFitFinished ==
    /\ envScore = 0 /\ Finished /\ NoShock
    /\ Len(timeline) = days /\ status = "fail"

\* C6 as stated: with envScore = 1 and no rainfall shock, each day's biomass
\* is higher than the previous day's, alive is true in every frame and the
\* final status is "great".
PerfectFitStrictlyRising ==
    (envScore = EnvOne /\ NoShock) =>
        /\ \A i \in 2..Len(timeline) :
              timeline[i].biomass > timeline[i - 1].biomass
        /\ \A i \in 1..Len(timeline) : timeline[i].alive
        /\ Finished => status = "great"

\* C6 amended: with envScore = 1 and no rainfall shock, biomass never
\* decreases from one day to the next, is strictly higher than the previous
\* day's on every day up to day 34, where it reaches the cap 1, and stays
\* at 1 from then on; alive is true in every frame and the final status is
\* "great".
PerfectFitRisesToCap ==
    (envScore = EnvOne /\ NoShock) =>
        /\ \A i \in 2..Len(timeline) :
              /\ timeline[i].biomass >= timeline[i - 1].biomass
              /\ i <= 34 => timeline[i].biomass > timeline[i - 1].biomass
              /\ i >= 34 => timeline[i].biomass = 1000
        /\ \A i \in 1..Len(timeline) :
              /\ timeline[i].alive
              /\ i < 34 => timeline[i].biomass < 1000
        /\ Finished => status = "great"

\* C6 witness: a finished perfect-fit run without rainfall shock
PerfectFitFinished ==
    /\ envScore = EnvOne /\ NoShock /\ Finished
    /\ Len(timeline) = days /\ status = "great"

\* C17: envScore, stress and the rainfall shock are constant over a run and
\* biomass starts at 0, so the biomass never decreases from one day to the
\* next (the running value and the value in the frames); death can only
\* happen on day 21: if any frame is not alive then frames 1..20 are alive,
\* frames 21..120 are not, and biomass is 0 in every frame; hence status is
\* "fail" if and only if the last frame is not alive, and status "fail"
\* implies stress > 0.7 and score <= 30.
BiomassNeverDecreases ==
    /\ Len(timeline) >= 1 => timeline[1].biomass >= 0
    /\ \A i \in 2..Len(timeline) :
          timeline[i].biomass >= timeline[i - 1].biomass
    /\ (pc = "loop" /\ d <= days) =>
          dayStep([d |-> d, biomass |-> biomass, alive |-> alive,
                   timeline |-> timeline],
                  envScore, stress, climR.annualRainMm, reqs).biomass
              >= biomass
    /\ (\E i \in 1..Len(timeline) : ~timeline[i].alive) =>
          /\ biomass = 0
          /\ \A i \in 1..Len(timeline) :
                /\ timeline[i].alive = (i <= 20)
                /\ timeline[i].biomass = 0
    /\ Finished =>
          /\ (status = "fail") = ~timeline[days].alive
          /\ status = "fail" =>
                /\ 10 * stress > 7 * EnvOne
                /\ finalScore <= 30

\* C17 witness: a finished run with some environmental fit (envScore > 0)
\* whose daily growth is eaten by decay and rainfall shock: the plant died
\* on day 21 and the status is "fail"
ShockedRunFailed ==
    /\ Finished /\ envScore > 0 /\ ~NoShock
    /\ growthRate(envScore) > decayOf(stress)
    /\ timeline[20].alive /\ ~timeline[21].alive
    /\ status = "fail"

----------------------------------------------------------------------------
(* Properties of the soil quality (SpecSoil) *)

Max2(a, b) == IF a > b THEN a ELSE b

\* C10: soilQuality = clamp(phFit - texturePenalty + socBonus, 0, 1); with
\* the other inputs fixed, a larger soc never gives a smaller soilQuality, a
\* larger clay (or sand) never gives a larger soilQuality, and the texture
\* penalty is 0.2 for each of clay, sand that is finite and above its
\* maximum (0.4 at most), however far above.
SoilQualityMonotone ==
    (ret # none /\ call.fn = "soilQuality") =>
        LET q(clay, sand, soc) ==
                soilQualityOf(call.phFit, clay, sand, soc, call.soilTexture)
            exceeded ==
                {k \in {"clay", "sand"} :
                    /\ call[k] # NaN
                    /\ call[k] > (IF k = "clay" THEN call.soilTexture.clayMax
                                               ELSE call.soilTexture.sandMax)}
        IN  /\ ret.soilQuality =
                  Max2(0, Min2(FitOne,
                       call.phFit - ret.texturePenalty + ret.socBonus))
            /\ ret.texturePenalty * 5 = Cardinality(exceeded) * FitOne
            /\ ret.texturePenalty * 5 <= 2 * FitOne
            /\ call.soc # NaN =>
                  \A soc2 \in SocOver(Obs) :
                      soc2 >= call.soc =>
                          q(call.clay, call.sand, soc2) >= ret.soilQuality
            /\ call.clay # NaN =>
                  \A clay2 \in Obs :
                      clay2 >= call.clay =>
                          q(clay2, call.sand, call.soc) <= ret.soilQuality
            /\ call.sand # NaN =>
                  \A sand2 \in Obs :
                      sand2 >= call.sand =>
                          q(call.clay, sand2, call.soc) <= ret.soilQuality

\* C10 witness: clay and sand both above their maxima (penalty 0.4), soc at
\* the cap of the bonus, and a soil quality strictly between 0 and 1
BothTexturePenalties ==
    /\ ret # none /\ call.fn = "soilQuality"
    /\ ret.texturePenalty * 5 = 2 * FitOne
    /\ ret.socBonus * 5 = FitOne
    /\ ret.soilQuality > 0 /\ ret.soilQuality < FitOne

----------------------------------------------------------------------------
(* Properties of a whole evaluation (SpecEngine) *)

Scored == pc \in {"loop", "classified", "done"} /\ fits # none
Half == FitOne \div 2

\* C9: the four reported fits (temperature, rainfall, solar, soil quality)
\* are in [0,1]; envScore is their weighted sum with weights 0.35, 0.30,
\* 0.15, 0.20 and is in [0,1]; stress = 1 - envScore is in [0,1]; and score
\* is the integer nearest to envScore * 100, in 0..100.
FitsAndScoreBounded ==
    Scored =>
        /\ \A k \in {"temperature", "rainfall", "solar", "soil"} :
              fits[k] # NaN /\ fits[k] >= 0 /\ fits[k] <= FitOne
        /\ envScore = 35 * fits.temperature + 30 * fits.rainfall
                      + 15 * fits.solar + 20 * fits.soil
        /\ envScore >= 0 /\ envScore <= EnvOne
        /\ stress = EnvOne - envScore
        /\ stress >= 0 /\ stress <= EnvOne
        /\ pc \in {"classified", "done"} =>
              /\ finalScore \in 0..100
              /\ 2 * Abs(finalScore * EnvOne - 100 * envScore) <= EnvOne

\* C9 witness: a finished evaluation in which the soil sum phFit + socBonus
\* exceeds 1 and is clamped, and every fit is 1, so that score = 100
ClampedSoilPerfectScore ==
    /\ pc = "done"
    /\ fits.ph = FitOne /\ soilR.soc # null /\ soilR.soc > 0
    /\ fits.soil = FitOne
    /\ envScore = EnvOne /\ finalScore = 100

\* C8 as stated: an unknown observation degrades to a neutral value: the fit
\* of an unknown temperature, annual rainfall, solar radiation or soil pH is
\* exactly 0.5, an unknown soc gives no bonus, an unknown clay or sand gives
\* no texture penalty and no texture limit, and a complete result (score,
\* status, 120-frame timeline) is returned.
UnknownObservationsNeutral ==
    Scored =>
        LET ph   == Coalesce(soilR.ph, NaN)
            clay == Coalesce(soilR.clay, NaN)
            sand == Coalesce(soilR.sand, NaN)
        IN  /\ climR.tempC = NaN => fits.temperature = Half
            /\ climR.rainMmPerDay = NaN => fits.rainfall = Half
            /\ climR.solarMJm2day = NaN => fits.solar = Half
            /\ soilR.ph = null => fits.ph = Half
            /\ soilR.soc = null =>
                  fits.soil = Max2(0, Min2(FitOne,
                      fits.ph - texturePenalty(clay, sand, reqs.soilTexture)))
            /\ soilR.clay = null =>
                  /\ fits.soil = soilQualityOf(fits.ph, NaN, sand,
                        Coalesce(soilR.soc, NaN), reqs.soilTexture)
                  /\ texturePenalty(clay, sand, reqs.soilTexture) * 5 <= FitOne
            /\ soilR.sand = null =>
                  texturePenalty(clay, sand, reqs.soilTexture) * 5 <= FitOne
            /\ pc = "done" =>
                  /\ res.code = 200 /\ Len(res.timeline) = days
                  /\ res.score \in 0..100
                  /\ res.status \in {"fail", "struggle", "good", "great"}
                  /\ soilR.clay = null =>
                        \A i \in 1..Len(limits) :
                            limits[i] # "Soil too clayey (poor drainage)"
                  /\ soilR.sand = null =>
                        \A i \in 1..Len(limits) :
                            limits[i] # "Soil too sandy (low water retention)"

Classified == pc \in {"classified", "done"}

\* C12: the status is "fail" if the frame of day 120 is not alive and its
\* biomass is below 0.2; otherwise "struggle" if score < 60; otherwise
\* "good" if score < 80; otherwise "great".  Every evaluation gets exactly
\* one of the four labels, the fail test is made before the score bands,
\* and the response carries that status and score.
StatusRule ==
    Classified =>
        LET last == timeline[days]
            failed == ~last.alive /\ last.biomass < 200
        IN  /\ status \in {"fail", "struggle", "good", "great"}
            /\ (status = "fail") = failed
            /\ (status = "struggle") = (~failed /\ finalScore < 60)
            /\ (status = "good") =
                  (~failed /\ finalScore >= 60 /\ finalScore < 80)
            /\ (status = "great") = (~failed /\ finalScore >= 80)
            /\ pc = "done" =>
                  res.status = status /\ res.score = finalScore

\* C12 witness: a finished evaluation in the struggle score band whose
\* last frame is dead with biomass 0, reported as "fail"
FailBeforeScoreBands ==
    /\ pc = "done" /\ res.code = 200
    /\ ~timeline[days].alive /\ timeline[days].biomass = 0
    /\ finalScore < 60
    /\ res.status = "fail"

\* the advisory strings, in the order of the design
Advisories ==
    <<"Temperature outside comfortable range",
      "Insufficient or excessive rainfall",
      "Suboptimal solar radiation",
      "Soil pH unsuitable",
      "Soil too clayey (poor drainage)",
      "Soil too sandy (low water retention)">>

\* the position of an advisory string in that order
AdvisoryRank(s) == CHOOSE k \in 1..Len(Advisories) : Advisories[k] = s

\* C13: the limits list of a response contains each advisory string at most
\* once, the k-th advisory is present exactly when its own condition holds
\* (temperature fit < 0.4; rainfall fit < 0.4; solar fit < 0.4; soil-pH fit
\* < 0.5; clay known and above clayMax; sand known and above sandMax), and
\* the strings present appear in the fixed order temperature, rainfall,
\* solar, pH, clay, sand.
LimitsIndependentAndOrdered ==
    pc = "done" =>
        LET lim == res.limits
            has(k) == \E i \in 1..Len(lim) : lim[i] = Advisories[k]
            known(x) == x # null /\ x # NaN
        IN  /\ lim = limits
            /\ \A i \in 1..Len(lim) :
                  \E k \in 1..Len(Advisories) : lim[i] = Advisories[k]
            /\ \A i, j \in 1..Len(lim) :
                  i < j => AdvisoryRank(lim[i]) < AdvisoryRank(lim[j])
            /\ has(1) = (10 * fits.temperature < 4 * FitOne)
            /\ has(2) = (10 * fits.rainfall < 4 * FitOne)
            /\ has(3) = (10 * fits.solar < 4 * FitOne)
            /\ has(4) = (2 * fits.ph < FitOne)
            /\ has(5) = (known(soilR.clay)
                           /\ soilR.clay > reqs.soilTexture.clayMax)
            /\ has(6) = (known(soilR.sand)
                           /\ soilR.sand > reqs.soilTexture.sandMax)

\* C13 witness: a response with all six advisories
AllSixLimits ==
    /\ pc = "done" /\ res.code = 200
    /\ res.limits = Advisories

----------------------------------------------------------------------------
(* Properties of the request handler (Spec) *)

Incomplete(p) ==
    \E k \in {"temperatureC", "soilPh", "soilTexture"} : p[k] = none

\* C7: when the crop requirements received are structurally incomplete
\* (temperatureC, soilPh or soilTexture missing) the run fails fast: the
\* response is an error without score, status or timeline, climate and soil
\* retrieval and scoring are not started, and incomplete requirements are
\* never in the crop cache.
IncompleteRequirementsFailFast ==
    /\ \A c \in DOMAIN cropDataCache : ~Incomplete(cropDataCache[c])
    /\ (parsed # none /\ Incomplete(parsed)) =>
          /\ pc = "done"
          /\ res.code = 404
          /\ DOMAIN res \cap {"score", "status", "timeline", "fits"} = {}
          /\ reqs = none
          /\ body.crop \notin DOMAIN cropDataCache
          /\ climSt = "none" /\ climR = none
          /\ soilSt = "none" /\ soilR = none /\ attempt = 0
          /\ fits = none /\ timeline = <<>> /\ status = ""

\* C16 as stated: a request in which lat or lon is absent, null or not a
\* finite number, or crop is absent or empty, is answered with status 400
\* "lat, lon, and crop are required", and no crop lookup, no climate or soil
\* retrieval and no simulation is made for it; this includes the body with
\* a null coordinate that the client sends when a field does not parse.
InvalidRequestRejected ==
    (body # none /\ (body.lat \in {null, undefined, NaN}
                       \/ body.lon \in {null, undefined, NaN}
                       \/ body.crop = "")) =>
        /\ pc \in {"received", "done"}
        /\ pc = "done" =>
              /\ res.code = 400
              /\ res.error = "lat, lon, and crop are required"
        /\ parsed = none /\ reqs = none
        /\ climSt = "none" /\ climR = none
        /\ soilSt = "none" /\ soilR = none /\ attempt = 0
        /\ fits = none /\ timeline = <<>> /\ status = ""

\* the fit / timeline computation of the current request has started
ScoringStarted ==
    \/ pc \in {"loop", "classified"}
    \/ fits # none
    \/ timeline # <<>>
    \/ (pc = "done" /\ res.code = 200)

\* C14: scoring begins only after all three inputs are resolved: whichever
\* of the concurrent climate and soil retrievals completes first, the fits
\* and the timeline are computed only once the crop requirements, the
\* climate record and the soil record are all there; while one retrieval is
\* still pending nothing has been scored; and when the climate retrieval
\* fails the request ends with an error 500 that carries no score, status
\* or timeline, whether the soil retrieval has finished or is still going.
ScoringAfterAllInputs ==
    /\ ScoringStarted =>
          /\ reqs # none /\ ~Incomplete(reqs)
          /\ climSt = "done" /\ climR # none
          /\ soilSt = "done" /\ soilR # none
    /\ (climSt = "pending" \/ (soilSt = "pending" /\ climSt # "failed")) =>
          pc = "fetching" /\ res = none /\ ~ScoringStarted
    /\ climSt = "failed" =>
          /\ pc = "done" /\ res.code = 500
          /\ DOMAIN res \cap {"score", "status", "timeline", "fits"} = {}
          /\ ~ScoringStarted /\ status = "" /\ climR = none
          /\ soilSt \in {"pending", "done"}

\* C14 witness: the climate retrieval failed while the soil retrieval was
\* still retrying, and the request has already been answered with an error
ClimateFailedSoilPending ==
    /\ climSt = "failed" /\ soilSt = "pending" /\ attempt > 1
    /\ pc = "done" /\ res.code = 500

\* the fixed default record {ph 6.5, soc 15, clay 25, silt 35, sand 40}
IsDefaultSoil(rec) ==
    /\ rec.ph = 65 /\ rec.soc = 15 /\ rec.clay = 25 /\ rec.silt = 35
    /\ rec.sand = 40

\* what a call of fetchSoil has done so far, and what it has returned
FetchSoilOutcome ==
    /\ attempt \in 0..maxRetries
    /\ soilSt \in {"none", "pending", "done"}
    /\ soilSt = "pending" => attempt >= 1 /\ soilR = none
    /\ soilSt = "done" =>
          /\ soilR # none
          /\ soilR \in SoilReplies \/ IsDefaultSoil(soilR)
    /\ (soilSt # "none" /\ invalidCoordinates(body.lat, body.lon)) =>
          soilSt = "done" /\ attempt = 0 /\ IsDefaultSoil(soilR)
    /\ (soilSt # "none" /\ ~invalidCoordinates(body.lat, body.lon)) =>
          attempt >= 1

\* a step of a call of fetchSoil: a further attempt is made only after an
\* exception or a response with a retryable status (5xx, 408, 429), and
\* only while fewer than maxRetries attempts have been made
FetchSoilStep ==
    /\ attempt' # attempt =>
          \/ soilSt = "none"
          \/ /\ soilSt = "pending" /\ soilSt' = "pending"
             /\ attempt < maxRetries /\ attempt' = attempt + 1
             /\ ret' # none
             /\ "status" \in DOMAIN ret' =>
                   \/ ret'.status >= 500
                   \/ ret'.status \in {408, 429}
    /\ soilSt = "done" => soilSt' = "done" /\ soilR' = soilR

\* C15: fetchSoil always terminates with a soil record and never fails to
\* its caller: whatever the outcomes of its attempts (a soil reply, a
\* status that is not OK, an exception, a body without data), it makes at
\* most maxRetries = 5 attempts and then returns the parsed soil values or
\* the fixed default record; coordinates out of range return the defaults
\* with zero attempts; and a response whose status is not retryable (4xx
\* other than 408 and 429) is never followed by another attempt.
FetchSoilTerminates ==
    /\ []FetchSoilOutcome
    /\ [][FetchSoilStep]_vars
    /\ (soilSt = "pending" ~> soilSt = "done")

\* C15 witness: all five attempts of a call with valid coordinates failed
\* with an exception, and the defaults were returned
FetchSoilGaveUp ==
    /\ soilSt = "done" /\ attempt = maxRetries
    /\ ~invalidCoordinates(body.lat, body.lon)
    /\ IsDefaultSoil(soilR) /\ soilR.error = "API unavailable"

\* C7 witness: a reply without soilTexture has been answered with 404
MissingTextureRejected ==
    /\ parsed # none /\ parsed.soilTexture = none
    /\ pc = "done" /\ res.code = 404

====
